---- MODULE Spec2Model ----
(***************************************************************************)
(* State-machine model of static/main.js: the speech-capture to            *)
(* translation to playback pipeline of the health-translate page.          *)
(*                                                                         *)
(* Transcript strings (finalTranscript, origArea.value, request text) are  *)
(* sequences of one-character strings so that String.prototype.trim can be *)
(* computed.  Strings shown in the translated-text display are TLA+        *)
(* strings, concatenated with \o as the code concatenates with +.          *)
(***************************************************************************)
EXTENDS Integers, Sequences, FiniteSets, TLC

\* ------------------------------------------------------------------ bounds
\* Number of captures that may be started in one behaviour.
MaxSessions == 2
\* Length of event.results: the results of one capture, final or not.
MaxResults == 2

\* ------------------------------------------------------------ input domains
he == <<"h", "e">>
hello == <<"h", "e", "l", "l", "o">>

\* SpeechRecognitionResults over the transcript strings T: the text of the
\* first alternative and isFinal.
Results(T) == [transcript : T, isFinal : BOOLEAN]

\* The windows of at most n new or revised results over T that one
\* recognition update may carry.
Windows(T, n) == UNION {[1..k -> Results(T)] : k \in 0..n}

\* JSON bodies of the /translate response: the objects with any subset of
\* the fields error, detail, translated over the values V.
Fields == {"error", "detail", "translated"}
Bodies(V) ==
  {j \in UNION {[D -> UNION {V[f] : f \in Fields}] : D \in SUBSET Fields} :
     \A f \in DOMAIN j : j[f] \in V[f]}

\* Descriptions of a rejected fetch() and of a rejected resp.json().
FetchErrors == {"TypeError: Failed to fetch"}
JsonErrors == {"SyntaxError: Unexpected token <"}

\* ------------------------------------------------------------------- state
VARIABLES
  supported,      \* supportsSpeech() at load time
  synthesis,      \* "speechSynthesis" in window
  recState,       \* provider: "idle", "running", "stopping"
  recLang,        \* recognition.lang
  finalTranscript,
  interim,        \* the local `interim` when onresult last returned
  origArea,       \* origArea.value
  translatedDiv,  \* translatedDiv.textContent
  startDisabled,  \* startBtn.disabled
  stopDisabled,   \* stopBtn.disabled
  playDisabled,   \* playBtn.disabled
  sourceLang,     \* sourceLang.value
  targetLang,     \* targetLang.value
  requests,       \* the sendForTranslation calls, in call order
  posted,         \* bodies POSTed to /translate by the handler that ran last
  utterances,     \* speechSynthesis queue
  session,        \* history: number of captures started
  finals,         \* texts of the results the provider made final this capture
  nonFinals,      \* history: texts of the non-final results of the last update
  interimUpdates, \* history: consecutive updates up to the last one whose
                  \* only result was non-final, counted up to 2
  lastKind,       \* history: kind of the handler or continuation run last
  lastWriter      \* history: event that wrote translatedDiv last

vars ==
  <<supported, synthesis, recState, recLang, finalTranscript, interim, origArea,
    translatedDiv, startDisabled, stopDisabled, playDisabled, sourceLang,
    targetLang, requests, posted, utterances, session, finals, nonFinals,
    interimUpdates, lastKind, lastWriter>>

\* ------------------------------------------------------------ pure helpers
Space == <<" ">>

IsWhite(c) == c = " "

RECURSIVE TrimStart(_)
TrimStart(s) ==
  IF s # <<>> /\ IsWhite(Head(s)) THEN TrimStart(Tail(s)) ELSE s

RECURSIVE TrimEnd(_)
TrimEnd(s) ==
  IF s # <<>> /\ IsWhite(s[Len(s)]) THEN TrimEnd(SubSeq(s, 1, Len(s) - 1)) ELSE s

\* String.prototype.trim
Trim(s) == TrimEnd(TrimStart(s))

mapLangCode(code) ==
  CASE code = "en" -> "en-US"
    [] code = "es" -> "es-ES"
    [] code = "hi" -> "hi-IN"
    [] code = "ta" -> "ta-IN"
    [] code = "auto" -> "en-US"
    [] OTHER -> "en-US"

mapLocaleFromCode(code) ==
  CASE code = "en" -> "en"
    [] code = "es" -> "es"
    [] code = "hi" -> "hi"
    [] code = "ta" -> "ta"
    [] OTHER -> "en"

\* JS truthiness of the property f of the object j (absent or "" is falsy).
Truthy(j, f) == f \in DOMAIN j /\ j[f] # ""

\* The object without properties.
NoBody == [f \in {} |-> ""]

\* ---------------------------------------------------- recognition.onresult
\* Variant: `interim` declared outside the handler and never cleared.
InterimAtEntry_Kept == interim

\* `let interim = ""` at handler entry.
InterimAtEntry == <<>>

\* Variant: a final result replaces the transcript (= for +=).
AppendFinal_Replace(ft, transcript) == transcript \o Space

\* Variant: the separator left out.
AppendFinal_NoSeparator(ft, transcript) == ft \o transcript

\* finalTranscript += transcript + " "
AppendFinal(ft, transcript) == ft \o transcript \o Space

\* Variant: `interim = transcript`, the last non-final result wins.
AppendInterim_LastWins(intr, transcript) == transcript

\* interim += transcript
AppendInterim(intr, transcript) == intr \o transcript

\* The for loop of onresult from index i (0-based, as in the code) on.
RECURSIVE ResultLoop(_, _, _, _)
ResultLoop(results, i, ft, intr) ==
  IF ~(i < Len(results))
    THEN [finalTranscript |-> ft, interim |-> intr]
    ELSE LET transcript == results[i + 1].transcript
         IN  IF results[i + 1].isFinal
               THEN ResultLoop(results, i + 1, AppendFinal(ft, transcript), intr)
               ELSE ResultLoop(results, i + 1, ft, AppendInterim(intr, transcript))

\* origArea.value = (finalTranscript + interim).trim()
DisplayedText(ft, intr) == Trim(ft \o intr)

\* History: the texts of the results event.results[i..] whose isFinal is b,
\* in delivery order.
RECURSIVE WindowTexts(_, _, _)
WindowTexts(results, i, b) ==
  IF ~(i < Len(results))
    THEN <<>>
    ELSE (IF results[i + 1].isFinal = b THEN <<results[i + 1].transcript>> ELSE <<>>)
           \o WindowTexts(results, i + 1, b)

\* A capture has been started and the provider has not fired onend yet.
Active == recState \in {"running", "stopping"}

\* event.results is cumulative over the capture: the results made final by
\* earlier updates stay at its head, and event.resultIndex is the index of
\* the first result of the window.
RecognitionEvent(window) ==
  [resultIndex |-> Len(finals),
   results |-> [k \in 1..Len(finals) |-> [transcript |-> finals[k], isFinal |-> TRUE]]
                 \o window]

\* for (let i = event.resultIndex; ...
LoopStart(event) == event.resultIndex

OnResult(window) ==
  /\ Active
  /\ Len(RecognitionEvent(window).results) <= MaxResults
  /\ LET event == RecognitionEvent(window)
         out == ResultLoop(event.results, LoopStart(event), finalTranscript,
                           InterimAtEntry)
     IN  /\ finalTranscript' = out.finalTranscript
         /\ interim' = out.interim
         /\ origArea' = DisplayedText(out.finalTranscript, out.interim)
         /\ finals' = finals \o WindowTexts(event.results, event.resultIndex, TRUE)
         /\ nonFinals' = WindowTexts(event.results, event.resultIndex, FALSE)
  /\ interimUpdates' =
       IF Len(window) = 1 /\ ~window[1].isFinal
         THEN (IF interimUpdates < 2 THEN interimUpdates + 1 ELSE 2)
         ELSE 0
  /\ posted' = <<>>
  /\ lastKind' = "result"
  /\ UNCHANGED <<supported, synthesis, recState, recLang, translatedDiv, startDisabled,
                 stopDisabled, playDisabled, sourceLang, targetLang, requests,
                 utterances, session, lastWriter>>

\* ----------------------------------------------------- recognition.onerror
\* Variant: the error handler discards the capture's text.
OnError_DiscardsText ==
  /\ Active
  /\ finalTranscript' = <<>>
  /\ origArea' = <<>>
  /\ posted' = <<>>
  /\ lastKind' = "error"
  /\ UNCHANGED <<supported, synthesis, recState, recLang, interim,
                 translatedDiv, startDisabled, stopDisabled, playDisabled,
                 sourceLang, targetLang, requests, utterances, session,
                 finals, nonFinals, lastWriter, interimUpdates>>

\* console.error(...) and nothing else.
OnError ==
  /\ Active
  /\ posted' = <<>>
  /\ lastKind' = "error"
  /\ UNCHANGED <<supported, synthesis, recState, recLang, finalTranscript, interim,
                 origArea, translatedDiv, startDisabled, stopDisabled,
                 playDisabled, sourceLang, targetLang, requests, utterances,
                 session, finals, nonFinals, lastWriter, interimUpdates>>

\* ------------------------------------------------------ sendForTranslation
Placeholder == "Translating..."

\* Variant: the source code is the one the capture was started with.
RequestBody_AtStart(text) ==
  [text |-> text,
   source |-> IF recLang = "es-ES" THEN "es" ELSE "auto",
   target |-> targetLang]

\* The body of the POST request, built before the first await.
RequestBody(text) == [text |-> text, source |-> sourceLang, target |-> targetLang]

\* A call of sendForTranslation suspended at `await fetch(...)`; writes
\* counts its assignments to translatedDiv.textContent after the placeholder.
NewRequest == [pc |-> "fetch", session |-> session, writes |-> 0]

\* "Error: " + (j.detail || j.error)
ErrorText(j) == "Error: " \o (IF Truthy(j, "detail") THEN j["detail"] ELSE j["error"])

\* j.translated || "(no translation)"
SuccessText(j) == IF Truthy(j, "translated") THEN j["translated"] ELSE "(no translation)"

\* "Network error: " + err
NetworkErrorText(err) == "Network error: " \o err

\* Variant: the `return` of the error branch left out.
ResponseWrites_FallThrough(j) ==
  IF Truthy(j, "error") THEN <<ErrorText(j), SuccessText(j)>> ELSE <<SuccessText(j)>>

\* The values the code after `await resp.json()` assigns to
\* translatedDiv.textContent, in order.
ResponseWrites(j) ==
  IF Truthy(j, "error") THEN <<ErrorText(j)>> ELSE <<SuccessText(j)>>

\* playBtn.disabled after that code, given its value p before.
ResponsePlayDisabled(j, p) == IF Truthy(j, "error") THEN p ELSE FALSE

\* playBtn.disabled after the catch block, given its value p before.
CatchPlayDisabled(p) == p

\* Variant: onend leaves the start control disabled.
StartBtnAfterEnd_Disabled == TRUE

\* onend: startBtn.disabled = false
StartBtnAfterEnd == FALSE

\* Variant: the emptiness test left out.
ShouldSubmit_Always(value) == TRUE

\* if (origArea.value.trim())
ShouldSubmit(value) == Trim(value) # <<>>

\* ------------------------------------------------------- recognition.onend
OnEnd ==
  /\ Active
  /\ recState' = "idle"
  /\ startDisabled' = StartBtnAfterEnd
  /\ stopDisabled' = TRUE
  /\ lastKind' = "end"
  /\ IF ShouldSubmit(origArea)
       THEN /\ translatedDiv' = Placeholder
            /\ playDisabled' = TRUE
            /\ posted' = <<RequestBody(Trim(origArea))>>
            /\ requests' = Append(requests, NewRequest)
            /\ lastWriter' = [kind |-> "translate", id |-> Len(requests) + 1,
                              j |-> NoBody, err |-> ""]
       ELSE /\ posted' = <<>>
            /\ UNCHANGED <<translatedDiv, playDisabled, requests, lastWriter>>
  /\ UNCHANGED <<supported, synthesis, recLang, finalTranscript, interim, origArea,
                 sourceLang, targetLang, utterances, session, finals, nonFinals, interimUpdates>>

\* fetch() resolves with a Response: the call moves on to `await resp.json()`.
FetchResolve(r) ==
  /\ r \in DOMAIN requests
  /\ requests[r].pc = "fetch"
  /\ requests' = [requests EXCEPT ![r].pc = "json"]
  /\ posted' = <<>>
  /\ lastKind' = "fetch"
  /\ UNCHANGED <<supported, synthesis, recState, recLang, finalTranscript, interim,
                 origArea, translatedDiv, startDisabled, stopDisabled,
                 playDisabled, sourceLang, targetLang, utterances, session,
                 finals, nonFinals, lastWriter, interimUpdates>>

\* Variant: without the try/catch the rejection escapes the handler.
Catch_Escapes(r, err) ==
  /\ requests' = [requests EXCEPT ![r].pc = "threw"]
  /\ posted' = <<>>
  /\ lastKind' = "failure"
  /\ UNCHANGED <<supported, synthesis, recState, recLang, finalTranscript,
                 interim, origArea, translatedDiv, startDisabled,
                 stopDisabled, playDisabled, sourceLang, targetLang,
                 utterances, session, finals, nonFinals, lastWriter,
                 interimUpdates>>

\* fetch() or resp.json() rejects: the catch block runs.
Catch(r, err) ==
  /\ translatedDiv' = NetworkErrorText(err)
  /\ playDisabled' = CatchPlayDisabled(playDisabled)
  /\ requests' = [requests EXCEPT ![r].pc = "done",
                                  ![r].writes = requests[r].writes + 1]
  /\ posted' = <<>>
  /\ lastKind' = "failure"
  /\ lastWriter' = [kind |-> "failure", id |-> r, j |-> NoBody, err |-> err]
  /\ UNCHANGED <<supported, synthesis, recState, recLang, finalTranscript, interim,
                 origArea, startDisabled, stopDisabled, sourceLang, targetLang,
                 utterances, session, finals, nonFinals, interimUpdates>>

FetchReject(r, err) ==
  /\ r \in DOMAIN requests
  /\ requests[r].pc = "fetch"
  /\ Catch(r, err)

JsonReject(r, err) ==
  /\ r \in DOMAIN requests
  /\ requests[r].pc = "json"
  /\ Catch(r, err)

\* resp.json() resolves with the object j: lines 95-100 run.
JsonResolve(r, j) ==
  /\ r \in DOMAIN requests
  /\ requests[r].pc = "json"
  /\ LET w == ResponseWrites(j)
     IN  /\ translatedDiv' = w[Len(w)]
         /\ requests' = [requests EXCEPT ![r].pc = "done",
                                         ![r].writes = requests[r].writes + Len(w)]
  /\ playDisabled' = ResponsePlayDisabled(j, playDisabled)
  /\ posted' = <<>>
  /\ lastKind' = "response"
  /\ lastWriter' = [kind |-> "response", id |-> r, j |-> j, err |-> ""]
  /\ UNCHANGED <<supported, synthesis, recState, recLang, finalTranscript, interim,
                 origArea, startDisabled, stopDisabled, sourceLang, targetLang,
                 utterances, session, finals, nonFinals, interimUpdates>>

\* -------------------------------------------------------- startBtn.onclick
\* Variant: the start handler leaves the display alone.
StartDisplay_Kept == translatedDiv

\* translatedDiv.textContent = "Translating..."
StartDisplay == Placeholder

\* playBtn.disabled after the start handler, given its value p before.
StartPlayDisabled(p) == p

\* Variant: the start handler leaves the start control enabled.
StartBtnAfterStart_Enabled == FALSE

\* startBtn.onclick: startBtn.disabled = true
StartBtnAfterStart == TRUE

StartClick ==
  /\ ~startDisabled
  /\ session < MaxSessions
  /\ finalTranscript' = <<>>
  /\ origArea' = <<>>
  /\ translatedDiv' = StartDisplay
  /\ playDisabled' = StartPlayDisabled(playDisabled)
  /\ recLang' = mapLangCode(sourceLang)
  /\ recState' = "running"
  /\ startDisabled' = StartBtnAfterStart
  /\ stopDisabled' = FALSE
  /\ session' = session + 1
  /\ finals' = <<>>
  /\ posted' = <<>>
  /\ lastKind' = "start"
  /\ lastWriter' = [kind |-> "start", id |-> session + 1, j |-> NoBody, err |-> ""]
  /\ interimUpdates' = 0
  /\ UNCHANGED <<supported, synthesis, interim, sourceLang, targetLang, requests,
                 utterances, nonFinals>>

\* --------------------------------------------------------- stopBtn.onclick
\* Variant: the stop handler leaves the stop control enabled.
StopClick_StaysEnabled ==
  /\ ~stopDisabled
  /\ recState' = IF recState = "running" THEN "stopping" ELSE recState
  /\ stopDisabled' = FALSE
  /\ posted' = <<>>
  /\ lastKind' = "stop"
  /\ UNCHANGED <<supported, synthesis, recLang, finalTranscript, interim,
                 origArea, translatedDiv, startDisabled, playDisabled,
                 sourceLang, targetLang, requests, utterances, session,
                 finals, nonFinals, lastWriter, interimUpdates>>

\* recognition.stop() asks the provider to stop, which it does later by
\* firing onend; stopBtn.disabled = true.
StopClick ==
  /\ ~stopDisabled
  /\ recState' = IF recState = "running" THEN "stopping" ELSE recState
  /\ stopDisabled' = TRUE
  /\ posted' = <<>>
  /\ lastKind' = "stop"
  /\ UNCHANGED <<supported, synthesis, recLang, finalTranscript, interim, origArea,
                 translatedDiv, startDisabled, playDisabled, sourceLang,
                 targetLang, requests, utterances, session, finals, nonFinals,
                 lastWriter, interimUpdates>>

\* --------------------------------------------- playBtn.onclick / speakText
\* The voices speechSynthesis.getVoices() reports, in order.
Voices == <<"en-US", "es-ES", "es-MX">>

\* x.lang.startsWith(prefix) for the locale tags above.
StartsWith(tag, prefix) ==
  \/ prefix = "en" /\ tag = "en-US"
  \/ prefix = "es" /\ tag \in {"es-ES", "es-MX"}

\* voices.find(...): the first matching voice, "default" when none matches.
FindVoice(lang) ==
  LET hits == {k \in DOMAIN Voices : StartsWith(Voices[k], mapLocaleFromCode(lang))}
  IN  IF hits = {} THEN "default"
      ELSE Voices[CHOOSE k \in hits : \A m \in hits : k <= m]

\* new SpeechSynthesisUtterance(text) with the voice found and rate 1.
Utterance(text, lang) == [text |-> text, voice |-> FindVoice(lang), rate |-> 1]

\* Variant: speak() without the preceding cancel().
speakText_NoCancel(text, lang) ==
  IF ~synthesis
    THEN UNCHANGED utterances
    ELSE utterances' = Append(utterances, Utterance(text, lang))

\* Without speechSynthesis: alert and return.  Otherwise
\* speechSynthesis.cancel() empties the queue and speechSynthesis.speak(utter)
\* queues the utterance.
speakText(text, lang) ==
  IF ~synthesis
    THEN UNCHANGED utterances
    ELSE utterances' = <<Utterance(text, lang)>>

\* Variant: the empty-text test left out.
NoText_Never(t) == FALSE

\* !t for the string t
NoText(t) == t = ""

\* lastKind records "interrupt" for a click whose speakText found an
\* utterance still queued, "play" for any other click.
PlayClick ==
  /\ ~playDisabled
  /\ IF NoText(translatedDiv)
       THEN UNCHANGED utterances
       ELSE speakText(translatedDiv, targetLang)
  /\ posted' = <<>>
  /\ lastKind' = IF ~NoText(translatedDiv) /\ synthesis /\ utterances # <<>>
                   THEN "interrupt"
                   ELSE "play"
  /\ UNCHANGED <<supported, synthesis, recState, recLang, finalTranscript, interim,
                 origArea, translatedDiv, startDisabled, stopDisabled,
                 playDisabled, sourceLang, targetLang, requests, session,
                 finals, nonFinals, lastWriter, interimUpdates>>

\* The synthesis provider finishes the utterance at the head of its queue;
\* no handler of the page runs.
UtteranceEnd ==
  /\ utterances # <<>>
  /\ utterances' = Tail(utterances)
  /\ UNCHANGED <<supported, synthesis, recState, recLang, finalTranscript, interim,
                 origArea, translatedDiv, startDisabled, stopDisabled,
                 playDisabled, sourceLang, targetLang, requests, posted,
                 session, finals, nonFinals, lastWriter, interimUpdates,
                 lastKind>>

\* ------------------------------------------------------ language selectors
\* The user picks an option; the page registers no handler on the selectors.
SelectSource(code) ==
  /\ sourceLang' = code
  /\ UNCHANGED <<supported, synthesis, recState, recLang, finalTranscript, interim,
                 origArea, translatedDiv, startDisabled, stopDisabled,
                 playDisabled, targetLang, requests, posted, utterances,
                 session, finals, nonFinals, lastWriter, interimUpdates,
                 lastKind>>

SelectTarget(code) ==
  /\ targetLang' = code
  /\ UNCHANGED <<supported, synthesis, recState, recLang, finalTranscript, interim,
                 origArea, translatedDiv, startDisabled, stopDisabled,
                 playDisabled, sourceLang, requests, posted, utterances,
                 session, finals, nonFinals, lastWriter, interimUpdates,
                 lastKind>>

\* ------------------------------------------------------------ specification
\* Variant: the start control is left enabled without a recognition provider.
StartBtnAtLoad_Enabled == FALSE

\* startBtn.disabled once main.js has run: set to true when supportsSpeech()
\* is false, enabled as in the markup otherwise.
StartBtnAtLoad == ~supported

\* The page after main.js has run once.  The markup gives the controls and
\* the display their initial values: stop and play disabled, display empty.
Init ==
  /\ supported \in BOOLEAN
  /\ synthesis = TRUE
  /\ recState = "idle"
  /\ recLang = ""
  /\ finalTranscript = <<>>
  /\ interim = <<>>
  /\ origArea = <<>>
  /\ translatedDiv = ""
  /\ startDisabled = StartBtnAtLoad
  /\ stopDisabled = TRUE
  /\ playDisabled = TRUE
  /\ sourceLang = "auto"
  /\ targetLang = "en"
  /\ requests = <<>>
  /\ posted = <<>>
  /\ utterances = <<>>
  /\ session = 0
  /\ finals = <<>>
  /\ nonFinals = <<>>
  /\ interimUpdates = 0
  /\ lastKind = "load"
  /\ lastWriter = [kind |-> "load", id |-> 0, j |-> NoBody, err |-> ""]

\* Capture in detail: varied recognition updates, one successful response
\* body, the selectors left at their initial values.
CaptureWindows == Windows({<<>>, he}, MaxResults)
CaptureBodies == Bodies([error |-> {}, detail |-> {}, translated |-> {"hola"}])
CaptureSources == {"auto"}
CaptureTargets == {"en"}

Next ==
  \/ StartClick
  \/ StopClick
  \/ \E window \in CaptureWindows : OnResult(window)
  \/ OnError
  \/ OnEnd
  \/ \E r \in 1..MaxSessions : FetchResolve(r)
  \/ \E r \in 1..MaxSessions, err \in FetchErrors : FetchReject(r, err)
  \/ \E r \in 1..MaxSessions, j \in CaptureBodies : JsonResolve(r, j)
  \/ \E r \in 1..MaxSessions, err \in JsonErrors : JsonReject(r, err)
  \/ PlayClick
  \/ UtteranceEnd
  \/ \E code \in CaptureSources : SelectSource(code)
  \/ \E code \in CaptureTargets : SelectTarget(code)

Spec == Init /\ [][Next]_vars

\* Submission in detail: varied language selections, recognition updates of
\* at most one result, one successful response body.
SubmitWindows == Windows({<<>>, hello}, 1)
SubmitBodies == Bodies([error |-> {}, detail |-> {}, translated |-> {"hola"}])
SubmitSources == {"auto", "es"}
SubmitTargets == {"en", "es"}

NextSubmit ==
  \/ StartClick
  \/ StopClick
  \/ \E window \in SubmitWindows : OnResult(window)
  \/ OnError
  \/ OnEnd
  \/ \E r \in 1..MaxSessions : FetchResolve(r)
  \/ \E r \in 1..MaxSessions, err \in FetchErrors : FetchReject(r, err)
  \/ \E r \in 1..MaxSessions, j \in SubmitBodies : JsonResolve(r, j)
  \/ \E r \in 1..MaxSessions, err \in JsonErrors : JsonReject(r, err)
  \/ PlayClick
  \/ UtteranceEnd
  \/ \E code \in SubmitSources : SelectSource(code)
  \/ \E code \in SubmitTargets : SelectTarget(code)

SpecSubmit == Init /\ [][NextSubmit]_vars

\* Translation in detail: every response body, recognition updates of at
\* most one result, the selectors left at their initial values.
TranslateWindows == Windows({<<>>, hello}, 1)
TranslateBodies ==
  Bodies([error |-> {"", "E"}, detail |-> {"bad"}, translated |-> {"", "hola"}])
TranslateSources == {"auto"}
TranslateTargets == {"en"}

NextTranslate ==
  \/ StartClick
  \/ StopClick
  \/ \E window \in TranslateWindows : OnResult(window)
  \/ OnError
  \/ OnEnd
  \/ \E r \in 1..MaxSessions : FetchResolve(r)
  \/ \E r \in 1..MaxSessions, err \in FetchErrors : FetchReject(r, err)
  \/ \E r \in 1..MaxSessions, j \in TranslateBodies : JsonResolve(r, j)
  \/ \E r \in 1..MaxSessions, err \in JsonErrors : JsonReject(r, err)
  \/ PlayClick
  \/ UtteranceEnd
  \/ \E code \in TranslateSources : SelectSource(code)
  \/ \E code \in TranslateTargets : SelectTarget(code)

SpecTranslate == Init /\ [][NextTranslate]_vars

\* Playback in detail: the page with or without speech synthesis, the play
\* control enabled or disabled by the markup (which is not among the
\* sources), varied target selections, recognition updates of at most one
\* result, one successful response body.
InitPlayback ==
  /\ supported \in BOOLEAN
  /\ synthesis \in BOOLEAN
  /\ recState = "idle"
  /\ recLang = ""
  /\ finalTranscript = <<>>
  /\ interim = <<>>
  /\ origArea = <<>>
  /\ translatedDiv = ""
  /\ startDisabled = StartBtnAtLoad
  /\ stopDisabled = TRUE
  /\ playDisabled \in BOOLEAN
  /\ sourceLang = "auto"
  /\ targetLang = "en"
  /\ requests = <<>>
  /\ posted = <<>>
  /\ utterances = <<>>
  /\ session = 0
  /\ finals = <<>>
  /\ nonFinals = <<>>
  /\ interimUpdates = 0
  /\ lastKind = "load"
  /\ lastWriter = [kind |-> "load", id |-> 0, j |-> NoBody, err |-> ""]

PlaybackWindows == Windows({hello}, 1)
PlaybackBodies == Bodies([error |-> {}, detail |-> {}, translated |-> {"hola"}])
PlaybackSources == {"auto"}
PlaybackTargets == {"en", "es", "hi"}

NextPlayback ==
  \/ StartClick
  \/ StopClick
  \/ \E window \in PlaybackWindows : OnResult(window)
  \/ OnError
  \/ OnEnd
  \/ \E r \in 1..MaxSessions : FetchResolve(r)
  \/ \E r \in 1..MaxSessions, err \in FetchErrors : FetchReject(r, err)
  \/ \E r \in 1..MaxSessions, j \in PlaybackBodies : JsonResolve(r, j)
  \/ \E r \in 1..MaxSessions, err \in JsonErrors : JsonReject(r, err)
  \/ PlayClick
  \/ UtteranceEnd
  \/ \E code \in PlaybackSources : SelectSource(code)
  \/ \E code \in PlaybackTargets : SelectTarget(code)

SpecPlayback == InitPlayback /\ [][NextPlayback]_vars

\* Settling in detail: as for translation, with one body of each outcome,
\* and a network that settles: a pending fetch() is eventually resolved or
\* rejected, and so is a pending resp.json().
SettleWindows == Windows({hello}, 1)
SettleBodies == {NoBody, [error |-> "E"], [translated |-> "hola"]}
SettleSources == {"auto"}
SettleTargets == {"en"}

FetchSettles(r) ==
  FetchResolve(r) \/ \E err \in FetchErrors : FetchReject(r, err)

JsonSettles(r) ==
  \/ \E j \in SettleBodies : JsonResolve(r, j)
  \/ \E err \in JsonErrors : JsonReject(r, err)

NextSettle ==
  \/ StartClick
  \/ StopClick
  \/ \E window \in SettleWindows : OnResult(window)
  \/ OnError
  \/ OnEnd
  \/ \E r \in 1..MaxSessions : FetchResolve(r)
  \/ \E r \in 1..MaxSessions, err \in FetchErrors : FetchReject(r, err)
  \/ \E r \in 1..MaxSessions, j \in SettleBodies : JsonResolve(r, j)
  \/ \E r \in 1..MaxSessions, err \in JsonErrors : JsonReject(r, err)
  \/ PlayClick
  \/ UtteranceEnd
  \/ \E code \in SettleSources : SelectSource(code)
  \/ \E code \in SettleTargets : SelectTarget(code)

SpecSettle ==
  /\ Init
  /\ [][NextSettle]_vars
  /\ \A r \in 1..MaxSessions : WF_vars(FetchSettles(r)) /\ WF_vars(JsonSettles(r))

\* =================================================================== claims
\* The texts, each followed by one space, concatenated in order.
RECURSIVE SpaceTerminated(_)
SpaceTerminated(texts) ==
  IF texts = <<>> THEN <<>>
  ELSE Head(texts) \o <<" ">> \o SpaceTerminated(Tail(texts))

\* The texts concatenated in order.
RECURSIVE Concatenated(_)
Concatenated(texts) ==
  IF texts = <<>> THEN <<>> ELSE Head(texts) \o Concatenated(Tail(texts))

\* C1: within one capture, finalTranscript is the concatenation, in delivery
\* order, of the texts of the final results handled so far, each followed
\* by exactly one space; non-final results leave it alone.
C1_FinalTranscriptIsFinalsJoined == finalTranscript = SpaceTerminated(finals)

\* Second capture, two final results handled.
C1_Witness ==
  /\ session = 2
  /\ lastKind = "result"
  /\ finals = <<he, he>>
  /\ finalTranscript = <<"h", "e", " ", "h", "e", " ">>

\* C2: after an update with a single non-final result the interim text is
\* that result's text, whatever the interim text of the update before, and
\* the displayed text is trim(finalTranscript + that text).
C2_InterimReplaced ==
  (lastKind = "result" /\ Len(nonFinals) = 1)
    => /\ interim = nonFinals[1]
       /\ origArea = Trim(finalTranscript \o nonFinals[1])

\* Two consecutive updates of one non-final result each, no final result.
C2_Witness ==
  /\ lastKind = "result"
  /\ finals = <<>>
  /\ interimUpdates = 2
  /\ nonFinals = <<he>>
  /\ interim = he
  /\ origArea = he

\* C3 as stated: after an update with several non-final results the interim
\* text is the text of the last of them.
C3_LastNonFinalWins ==
  (lastKind = "result" /\ Len(nonFinals) >= 2)
    => interim = nonFinals[Len(nonFinals)]

\* C3 amended: after an update the interim text is the concatenation, in
\* window order, of the texts of all the non-final results of that update,
\* and of nothing else.
C3_InterimIsBatchConcatenation == interim = Concatenated(nonFinals)

\* An update with two non-empty non-final results.
C3_Witness ==
  /\ lastKind = "result"
  /\ Len(nonFinals) = 2
  /\ nonFinals[1] # <<>>
  /\ nonFinals[2] # <<>>
  /\ interim = <<"h", "e", "h", "e">>

\* C4: a capture end whose trimmed displayed text is empty posts no
\* translation request, and every request posted carries a text that is
\* non-empty after trimming.
C4_NoRequestForEmptyText ==
  [][/\ (Active /\ ~Active' /\ Trim(origArea) = <<>>)
          => (posted' = <<>> /\ requests' = requests)
      /\ \A k \in DOMAIN posted' : Trim(posted'[k].text) # <<>>]_vars

\* A capture that handled a final result with empty text has ended:
\* finalTranscript is " ", the displayed text is empty, nothing was posted.
C4_Witness ==
  /\ lastKind = "end"
  /\ finalTranscript = <<" ">>
  /\ origArea = <<>>
  /\ posted = <<>>
  /\ requests = <<>>

\* C5: a capture end whose trimmed displayed text is non-empty posts exactly
\* one translation request: its text is the trimmed displayed text and its
\* source and target are the selector values at capture end.
C5_OneRequestWithCurrentLanguages ==
  [][(Active /\ ~Active' /\ Trim(origArea) # <<>>)
       => /\ posted' = <<[text |-> Trim(origArea), source |-> sourceLang,
                           target |-> targetLang]>>
          /\ Len(requests') = Len(requests) + 1
          /\ Cardinality({r \in DOMAIN requests' :
                            requests'[r].session = session}) = 1]_vars

\* The capture was started with source "auto" (recognition.lang "en-US") and
\* target "en"; both selectors were changed before the capture ended.
C5_Witness ==
  /\ lastKind = "end"
  /\ recLang = "en-US"
  /\ posted = <<[text |-> hello, source |-> "es", target |-> "es"]>>
  /\ Len(requests) = 1

\* The response body carries an error indicator (a truthy error field).
HasError(j) == "error" \in DOMAIN j /\ j["error"] # ""

\* The text the display is to show for the translated value of the body j.
ShownTranslation(j) ==
  IF "translated" \in DOMAIN j /\ j["translated"] # ""
    THEN j["translated"] ELSE "(no translation)"

\* The message the display is to show for the error body j.
ShownError(j) ==
  IF "detail" \in DOMAIN j /\ j["detail"] # ""
    THEN "Error: " \o j["detail"] ELSE "Error: " \o j["error"]

\* C6: whenever the playback control is enabled, the display holds the value
\* set by the successful response of the most recent translate call, and
\* that call belongs to the current capture.
C6_PlayableImpliesFreshResult ==
  ~playDisabled
    => /\ lastWriter.kind = "response"
       /\ ~HasError(lastWriter.j)
       /\ lastWriter.id = Len(requests)
       /\ requests[lastWriter.id].session = session
       /\ translatedDiv = ShownTranslation(lastWriter.j)

\* C7: once an error response or a rejected request has been handled, the
\* playback control is disabled and the display shows the message.
C7_FailureDisablesPlayback ==
  /\ (lastKind = "response" /\ HasError(lastWriter.j))
       => (playDisabled /\ translatedDiv = ShownError(lastWriter.j))
  /\ lastKind = "failure"
       => (playDisabled /\ translatedDiv = "Network error: " \o lastWriter.err)

\* C8: once a response without error field has been handled, the display
\* holds the translated value or "(no translation)" and the playback control
\* is enabled; a completed translate call has written the display exactly
\* once after its placeholder.
C8_SuccessShownOnce ==
  /\ (lastKind = "response" /\ "error" \notin DOMAIN lastWriter.j)
       => (translatedDiv = ShownTranslation(lastWriter.j) /\ ~playDisabled)
  /\ \A r \in DOMAIN requests : requests[r].pc = "done" => requests[r].writes = 1

\* A response whose translated value is empty and that has no error field.
C8_Witness ==
  /\ lastKind = "response"
  /\ lastWriter.j = [translated |-> ""]
  /\ translatedDiv = "(no translation)"
  /\ ~playDisabled
  /\ requests[lastWriter.id].writes = 1

\* C9: the completion of a translate call issued by an earlier capture, after
\* a later capture has been started, changes neither the display nor the
\* playback control.
C9_NoCrossSessionWrite ==
  [][\A r \in DOMAIN requests :
       (requests[r].pc # "done" /\ requests'[r].pc = "done"
          /\ requests[r].session < session)
         => (translatedDiv' = translatedDiv /\ playDisabled' = playDisabled)]_vars

\* The value the event w assigns to the display.
WrittenBy(w) ==
  CASE w.kind = "load" -> ""
    [] w.kind \in {"start", "translate"} -> "Translating..."
    [] w.kind = "failure" -> "Network error: " \o w.err
    [] w.kind = "response" ->
         IF HasError(w.j) THEN ShownError(w.j) ELSE ShownTranslation(w.j)

\* C10: the display holds the value written by the event delivered last
\* among the start clicks, translate calls, responses and failures, whatever
\* the order in which the requests were issued.
C10_LastWriteWins == translatedDiv = WrittenBy(lastWriter)

\* Two captures, both requests completed, the response to the first request
\* delivered after the completion of the second.
C10_Witness ==
  /\ session = 2
  /\ ~Active
  /\ Len(requests) = 2
  /\ \A r \in DOMAIN requests : requests[r].pc = "done"
  /\ lastWriter.kind = "response"
  /\ lastWriter.id = 1
  /\ translatedDiv = "hola"

\* C11: while a capture is active (from the start handler to onend, the
\* interval after the stop handler included) the start control is disabled;
\* the start handler runs only when no capture is active; onend re-enables
\* the start control; the start and stop controls are never both enabled.
StartStopExclusive == startDisabled \/ stopDisabled

C11_StartDisabledWhileCapturing ==
  [][/\ Active => startDisabled
     /\ Active' => startDisabled'
     /\ StartStopExclusive
     /\ StartStopExclusive'
     /\ session' # session => (~Active /\ Active')
     /\ (Active /\ ~Active') => ~startDisabled']_vars

\* A second capture, after its stop request and before its onend.
C11_Witness ==
  /\ session = 2
  /\ recState = "stopping"
  /\ lastKind = "stop"
  /\ startDisabled
  /\ stopDisabled

\* C12: without a recognition provider the start control is disabled in
\* every reachable state, no capture is ever started and no translation
\* request is ever issued.
C12_NoRecognitionNoCapture ==
  ~supported =>
    /\ startDisabled
    /\ ~Active
    /\ session = 0
    /\ requests = <<>>
    /\ posted = <<>>

\* No provider, and the user has used the selectors meanwhile.
C12_Witness ==
  /\ ~supported
  /\ sourceLang = "es"
  /\ targetLang = "es"
  /\ startDisabled
  /\ session = 0
\* C13: at most one utterance is queued or speaking at any time; a playback
\* that speaks while an utterance is still in flight leaves exactly its own
\* utterance, the earlier one cancelled.
C13_AtMostOneUtterance ==
  [][/\ Len(utterances) <= 1
     /\ Len(utterances') <= 1
     /\ (lastKind' = "interrupt" /\ lastKind # "interrupt") =>
          /\ Len(utterances) = 1
          /\ Len(utterances') = 1
          /\ utterances'[1].text = translatedDiv]_vars

\* A playback of the Spanish text has just replaced an utterance in flight.
C13_Witness ==
  /\ lastKind = "interrupt"
  /\ Len(utterances) = 1
  /\ utterances[1].text = "hola"
\* C15: a playback with an empty display changes nothing in the synthesis
\* queue (no cancel, no speak); a playback that speaks queues exactly the
\* text displayed at the click, with the first installed voice of the target
\* language selected at the click (the provider's default voice when no
\* voice of that language is installed); nothing else is ever queued.
VoiceLanguage(v) ==
  CASE v = "en-US" -> "en"
    [] v \in {"es-ES", "es-MX"} -> "es"
    [] OTHER -> ""

InTargetLanguage(u, code) ==
  LET installed == {k \in DOMAIN Voices : VoiceLanguage(Voices[k]) = code}
  IN  IF installed = {}
        THEN u.voice = "default"
        ELSE /\ VoiceLanguage(u.voice) = code
             /\ \E k \in installed :
                  Voices[k] = u.voice /\ \A m \in installed : k <= m

SpeaksDisplayedText ==
  /\ Len(utterances') = 1
  /\ utterances'[1].text = translatedDiv
  /\ utterances'[1].rate = 1
  /\ InTargetLanguage(utterances'[1], targetLang)

C15_EmptyDisplayClicked ==
  /\ lastKind = "play"
  /\ translatedDiv = ""
  /\ synthesis
  /\ utterances = <<>>
\* C14: a step that ends in a recognition error, a transport failure or a
\* service error response leaves the start and stop controls, the provider
\* and finalTranscript as they were; whenever no capture is active on a page
\* with a provider the start control is enabled; and every start of a
\* capture performs the same reset.
EndsInFailure ==
  \/ lastKind' \in {"error", "failure"}
  \/ lastKind' = "response" /\ HasError(lastWriter'.j)

C14_FailuresNonFatal ==
  [][/\ EndsInFailure =>
          /\ startDisabled' = startDisabled
          /\ stopDisabled' = stopDisabled
          /\ recState' = recState
          /\ finalTranscript' = finalTranscript
     /\ (supported /\ ~Active) => ~startDisabled
     /\ (supported /\ ~Active') => ~startDisabled'
     /\ session' # session =>
          /\ finalTranscript' = <<>>
          /\ origArea' = <<>>
          /\ translatedDiv' = "Translating..."
          /\ recState' = "running"
          /\ startDisabled'
          /\ ~stopDisabled']_vars

\* The translation of capture 1 failed (playback was never enabled), and
\* capture 2 has been started and reset afterwards.
C14_Witness ==
  /\ session = 2
  /\ lastKind = "start"
  /\ Len(requests) = 1
  /\ requests[1].pc = "done"
  /\ playDisabled
  /\ lastWriter.kind = "start"
  /\ finalTranscript = <<>>
  /\ translatedDiv = "Translating..."
\* C16: within a session every step leaves finalTranscript unchanged or
\* extended at the end; a step that starts a session resets it to empty;
\* only recognition updates and the start handler change it.
IsPrefix(a, b) == Len(a) <= Len(b) /\ SubSeq(b, 1, Len(a)) = a

C16_FinalTranscriptAppendOnly ==
  [][/\ session' = session => IsPrefix(finalTranscript, finalTranscript')
     /\ session' # session => finalTranscript' = <<>>
     /\ finalTranscript' # finalTranscript => lastKind' \in {"result", "start"}]_vars

\* Two final results were appended, then the capture was stopped and ended,
\* its text translated and the result played: the transcript is intact.
C16_Witness ==
  /\ session = 1
  /\ lastKind \in {"play", "interrupt"}
  /\ requests # <<>>
  /\ finalTranscript = <<"h", "e", " ", "h", "e", " ">>

\* C17: the recognition error handler changes none of finalTranscript, the
\* displayed text, the translated display, the three controls, the provider
\* or the requests; and a capture end that directly follows an error with
\* non-empty trimmed text still posts that text for translation.
C17_RecognitionErrorLoggedOnly ==
  [][/\ lastKind' = "error" =>
          UNCHANGED <<finalTranscript, interim, origArea, translatedDiv,
                      startDisabled, stopDisabled, playDisabled, recState,
                      requests>>
     /\ (lastKind = "error" /\ Active /\ ~Active' /\ Trim(origArea) # <<>>) =>
          /\ Len(requests') = Len(requests) + 1
          /\ Len(posted') = 1
          /\ posted'[1].text = Trim(origArea)]_vars

\* An error reported in mid-stream, after a final and a non-final result:
\* the text is still there for the capture end to submit.
C17_Witness ==
  /\ lastKind = "error"
  /\ recState = "running"
  /\ finals = <<he>>
  /\ finalTranscript = <<"h", "e", " ">>
  /\ origArea = <<"h", "e", " ", "h", "e">>
  /\ ~stopDisabled

\* C18: the stop handler disables the stop control at once and leaves the
\* capture active: a stop request is made only to a running provider, which
\* is then stopping until onend, with the stop and start controls disabled
\* throughout; an update delivered while stopping is merged like any other,
\* and the capture end posts the displayed text that includes it.
C18_StopDoesNotEndCapture ==
  [][/\ (recState = "stopping" => (stopDisabled /\ startDisabled))
     /\ (recState' = "stopping" => (stopDisabled' /\ startDisabled'))
     /\ (lastKind' = "stop" /\ lastKind # "stop") =>
          (recState = "running" /\ recState' = "stopping")
     /\ recState = "stopping" => recState' \in {"stopping", "idle"}
     /\ (recState' = "stopping" /\ lastKind' = "result") =>
          /\ finalTranscript' = SpaceTerminated(finals')
          /\ origArea' = Trim(finalTranscript' \o Concatenated(nonFinals'))
     /\ (recState = "stopping" /\ recState' = "idle" /\ Trim(origArea) # <<>>) =>
          /\ Len(posted') = 1
          /\ posted'[1].text = Trim(origArea)]_vars

\* A final result delivered after the stop request and before onend.
C18_Witness ==
  /\ recState = "stopping"
  /\ lastKind = "result"
  /\ finals = <<he>>
  /\ finalTranscript = <<"h", "e", " ">>
  /\ origArea = he
  /\ stopDisabled
  /\ startDisabled
\* C19: whenever no capture is active and every translation request has
\* completed, the translated-text display does not hold the placeholder
\* "Translating...".
Outstanding == {r \in DOMAIN requests : requests[r].pc # "done"}

C19_PlaceholderOnlyWhileBusy ==
  (~Active /\ Outstanding = {}) => translatedDiv # "Translating..."
\* C20: on a network that settles, every sendForTranslation call eventually
\* completes, having written to the translated-text display exactly once
\* after the placeholder; a completed call has written one of the terminal
\* texts, and no call ends any other way.
TerminalText(w) ==
  \/ w.kind = "response" /\ ~HasError(w.j) /\ translatedDiv = ShownTranslation(w.j)
  \/ w.kind = "response" /\ HasError(w.j) /\ translatedDiv = ShownError(w.j)
  \/ w.kind = "failure" /\ translatedDiv = "Network error: " \o w.err

Called(r) == r \in DOMAIN requests

Resolved(r) ==
  /\ r \in DOMAIN requests
  /\ requests[r].pc = "done"
  /\ requests[r].writes = 1

C20_EveryCallResolves ==
  /\ \A r \in 1..MaxSessions : Called(r) ~> Resolved(r)
  /\ [](\A r \in DOMAIN requests : requests[r].pc \in {"fetch", "json", "done"})
  /\ [](lastKind \in {"response", "failure"} => TerminalText(lastWriter))

\* Both calls have completed, the second by a transport failure.
C20_Witness ==
  /\ Len(requests) = 2
  /\ \A r \in DOMAIN requests : requests[r].pc = "done" /\ requests[r].writes = 1
  /\ lastKind = "failure"
  /\ lastWriter.id = 2
  /\ translatedDiv = "Network error: TypeError: Failed to fetch"
====
